---- MODULE Spec2Model ----
(***************************************************************************)
(* Wordle agents (paolo-notaro/wordle-agents): the feedback oracle          *)
(* compute_feedback, the candidate filter match_feedback, the five agent   *)
(* classes with their reset / guess / process_feedback lifecycle, the      *)
(* persisted first-round entropy cache, and the evaluate_agent driver.     *)
(*                                                                         *)
(* Words are 5-tuples of one-letter strings, feedback codes 5-tuples over  *)
(* "g", "y", "b".  Python sets and the lists obtained by filtering them    *)
(* are TLA+ sets: a set's iteration order is arbitrary, so every max()     *)
(* over it is a choice among all its maxima.  compute_feedback is pure, so *)
(* its lru_cache (cleared by reset) is no state; the process pool of       *)
(* dispatch_compute_entropy maps the same function over the same guesses   *)
(* as the sequential branch, so both are one operator.  An exception is    *)
(* not caught anywhere: the call that raises is the last step.             *)
(***************************************************************************)
EXTENDS Integers, Sequences, FiniteSets, TLC

VARIABLES
    WORD_LIST,             \* evaluate.py: the vocabulary loaded at import
    cache_file,            \* data/init_entropy_cache.txt: [exists, content]
    file_writes,           \* number of times the process opened the file for writing
    calls,                 \* number of constructor and evaluate_agent calls made
    cls,                   \* class of the current agent ("none" before the first)
    remaining,             \* agent.remaining
    history,               \* agent.history
    round,                 \* agent.round
    init_entropy_cache,    \* agent.init_entropy_cache
    num_samples_entropy,   \* agent.num_samples_entropy
    exploration_rounds,    \* agent.exploration_rounds
    agent_writes,          \* number of file writes made by the current agent
    agent_games,           \* number of games played by the current agent
    pc,                    \* position of the process
    target,                \* evaluate_agent: target
    attempt,               \* evaluate_agent: attempt
    guess,                 \* evaluate_agent: guess
    result,                \* evaluate_agent: result
    score,                 \* evaluate_agent: returned value
    exc,                   \* exception that ended the current call ("none" if none)
    fb_pc,                 \* oracle harness: position
    fb_guess,              \* oracle harness: guess argument
    fb_target,             \* oracle harness: target argument
    fb_result,             \* oracle harness: value returned by compute_feedback
    fb_solved              \* oracle harness: outcome of the result == 'ggggg' test

gameVars ==
    <<WORD_LIST, cache_file, file_writes, calls, cls, remaining, history,
      round, init_entropy_cache, num_samples_entropy, exploration_rounds,
      agent_writes, agent_games, pc, target, attempt, guess, result, score, exc>>

fbVars ==
    <<fb_pc, fb_guess, fb_target, fb_result, fb_solved>>

vars ==
    <<gameVars, fbVars>>

(***************************************************************************)
(* Words and feedback codes                                                *)
(***************************************************************************)

\* The word length hard-coded in compute_feedback (range(5)).
WordLen ==
    5

Pos ==
    1..WordLen

\* Size of the alphabet the oracle harness draws its words from.
AlphabetSize ==
    3

LetterPool ==
    <<"a", "s", "e", "r", "t">>

Alphabet ==
    {LetterPool[i] : i \in 1..AlphabetSize}

crate ==
    <<"c", "r", "a", "t", "e">>

trace ==
    <<"t", "r", "a", "c", "e">>

sound ==
    <<"s", "o", "u", "n", "d">>

sassy ==
    <<"s", "a", "s", "s", "y">>

sissy ==
    <<"s", "i", "s", "s", "y">>

eater ==
    <<"e", "a", "t", "e", "r">>

tubes ==
    <<"t", "u", "b", "e", "s">>

steel ==
    <<"s", "t", "e", "e", "l">>

NoWord ==
    <<>>

AllGreen ==
    [i \in Pos |-> "g"]

AllBlack ==
    [i \in Pos |-> "b"]

Min(S) ==
    CHOOSE x \in S : \A y \in S : x <= y

\* 'c in word'
InWord(c, word) ==
    \E i \in Pos : word[i] = c

\* The first loop of compute_feedback: greens, and the target positions they use.
GreenPass(g, t) ==
    [feedback |-> [i \in Pos |-> IF g[i] = t[i] THEN "g" ELSE "b"],
     used     |-> [i \in Pos |-> g[i] = t[i]]]

\* The second loop of compute_feedback from position i on: a position that is
\* not green takes the first unused target position holding its letter.
RECURSIVE YellowPass(_, _, _, _)
YellowPass(i, st, g, t) ==
    IF i > WordLen THEN st.feedback
    ELSE LET J == {j \in Pos : ~st.used[j] /\ g[i] = t[j]}
         IN  IF st.feedback[i] # "g" /\ J # {}
             THEN YellowPass(i + 1,
                             [feedback |-> [st.feedback EXCEPT ![i] = "y"],
                              used     |-> [st.used EXCEPT ![Min(J)] = TRUE]],
                             g, t)
             ELSE YellowPass(i + 1, st, g, t)

\* Mutant: the yellow loop is missing.
compute_feedback_noYellowPass(g, t) ==
    GreenPass(g, t).feedback

\* Mutant: the green loop is missing, every match is found by the yellow loop.
compute_feedback_noGreenPass(g, t) ==
    YellowPass(1, [feedback |-> AllBlack, used |-> [i \in Pos |-> FALSE]], g, t)

\* Mutant: no consumption bookkeeping, a letter is yellow when the target holds it.
compute_feedback_noConsume(g, t) ==
    [i \in Pos |-> IF g[i] = t[i] THEN "g"
                   ELSE IF InWord(g[i], t) THEN "y" ELSE "b"]

compute_feedback(g, t) ==
    YellowPass(1, GreenPass(g, t), g, t)

\* evaluate_agent's test `result == 'ggggg'`.
IsSolved(res) ==
    res = AllGreen

(***************************************************************************)
(* Oracle harness: compute_feedback applied to any pair of words, followed *)
(* by the driver's all-green test.                                         *)
(***************************************************************************)

OracleWords ==
    [Pos -> Alphabet] \cup {crate, trace, sound, sassy, sissy, eater, tubes, steel}

FbGameInit ==
    /\ WORD_LIST = {}
    /\ cache_file = [exists |-> FALSE, content |-> <<>>]
    /\ file_writes = 0
    /\ calls = 0
    /\ cls = "none"
    /\ remaining = {}
    /\ history = <<>>
    /\ round = 0
    /\ init_entropy_cache = <<>>
    /\ num_samples_entropy = 0
    /\ exploration_rounds = 0
    /\ agent_writes = 0
    /\ agent_games = 0
    /\ pc = "oracle"
    /\ target = NoWord
    /\ attempt = 0
    /\ guess = NoWord
    /\ result = NoWord
    /\ score = 0
    /\ exc = "none"

FbInit ==
    /\ FbGameInit
    /\ fb_pc = "call"
    /\ fb_guess \in OracleWords
    /\ fb_target \in OracleWords
    /\ fb_result = NoWord
    /\ fb_solved = FALSE

\* result = compute_feedback(guess, target), then the test result == 'ggggg'.
FbCall ==
    /\ fb_pc = "call"
    /\ fb_result' = compute_feedback(fb_guess, fb_target)
    /\ fb_solved' = IsSolved(fb_result')
    /\ fb_pc' = "done"
    /\ UNCHANGED <<fb_guess, fb_target, gameVars>>

FbNext ==
    FbCall

SpecFeedback ==
    FbInit /\ [][FbNext]_vars

(***************************************************************************)
(* Agents                                                                  *)
(***************************************************************************)

\* Largest vocabulary, and the number of calls (constructions and games) the
\* process makes.
MaxVocab ==
    2

MaxCalls ==
    4

GameWords ==
    {eater, tubes, steel}

AgentClasses ==
    {"RandomAgent", "DiverseRandomAgent", "FrequencyAgent", "EntropyAgent",
     "ExploreExploitAgent"}

\* The classes whose process_feedback is RandomAgent's.
RandomClasses ==
    {"RandomAgent", "DiverseRandomAgent"}

\* The classes whose __init__ is EntropyAgent's.
EntropyClasses ==
    {"EntropyAgent", "ExploreExploitAgent"}

\* The classes whose process_feedback filters with match_feedback.
FilterClasses ==
    {"FrequencyAgent", "EntropyAgent", "ExploreExploitAgent"}

\* Python's None as the value of agent.remaining: a set that holds no word, so
\* that it stays comparable with the sets of words.
NoneRemaining ==
    {<<"None">>}

\* num_samples_entropy = None.
NoSamples ==
    -1

\* The exploration_rounds default of ExploreExploitAgent.
DefaultExplorationRounds ==
    3

EmptyCache ==
    <<>>

RECURSIVE SumOver(_, _)
SumOver(S, f) ==
    IF S = {} THEN 0
    ELSE LET x == CHOOSE y \in S : TRUE
         IN  f[x] + SumOver(S \ {x}, f)

RECURSIVE ProductOver(_, _)
ProductOver(S, f) ==
    IF S = {} THEN 1
    ELSE LET x == CHOOSE y \in S : TRUE
         IN  f[x] * ProductOver(S \ {x}, f)

\* The keys of a dict with the greatest value: max(d, key=d.get) returns one of them.
ArgMax(d) ==
    {w \in DOMAIN d : \A v \in DOMAIN d : d[v] <= d[w]}

LettersOf(word) ==
    {word[i] : i \in Pos}

\* Counter(word)[c]
LetterCount(c, word) ==
    Cardinality({i \in Pos : word[i] = c})

\* match_feedback: the positional check of a word against a guess's feedback.
match_feedback(g, res, word) ==
    \A i \in Pos :
        /\ res[i] = "g" => word[i] = g[i]
        /\ res[i] = "y" => (InWord(g[i], word) /\ word[i] # g[i])
        /\ res[i] = "b" => ~InWord(g[i], word)

\* WordleAgent.reset: the candidate set a game starts from.
ResetRemaining(word_list) ==
    word_list

\* RandomAgent.guess: random.choice(self.remaining) subscripts a set, which
\* raises TypeError; no word is returned.
GuessRaises(c) ==
    c = "RandomAgent"

RandomAgent_guess(rem) ==
    {}

\* DiverseRandomAgent.guess: the first word of the candidates sorted by their
\* number of distinct letters, most first.
DiverseRandomAgent_guess(rem) ==
    {w \in rem : \A v \in rem : Cardinality(LettersOf(v)) <= Cardinality(LettersOf(w))}

\* letter_freq = sum of the candidates' letter counters.
LetterFreq(rem) ==
    [c \in UNION {LettersOf(w) : w \in rem} |->
        SumOver(rem, [w \in rem |-> LetterCount(c, w)])]

letter_frequency_score(g, letter_freq) ==
    SumOver(LettersOf(g) \cap DOMAIN letter_freq, letter_freq)

\* FrequencyAgent.guess (and the exploitation branch of ExploreExploitAgent.guess).
FrequencyAgent_guess(rem) ==
    ArgMax([w \in rem |-> letter_frequency_score(w, LetterFreq(rem))])

\* entropy_task_simple.  The candidates of one dispatch are scored against one
\* evaluation set, so their entropies log2(N) - (1/N) * log2(prod c^c) are ordered as
\* the integers -prod c^c over the bucket sizes c; the score kept is that integer.
entropy_task_simple(g, entropy_set) ==
    LET fbs     == {compute_feedback(g, t) : t \in entropy_set}
        buckets == [fb \in fbs |->
                      Cardinality({t \in entropy_set : compute_feedback(g, t) = fb})]
    IN  0 - ProductOver(fbs, [fb \in fbs |-> buckets[fb] ^ buckets[fb]])

\* dispatch_compute_entropy: the evaluation sets it may draw.
EntropySets(rem, num_samples) ==
    IF num_samples = NoSamples THEN {rem}
    ELSE {S \in SUBSET rem :
            Cardinality(S) = IF num_samples < Cardinality(rem)
                             THEN num_samples ELSE Cardinality(rem)}

\* dispatch_compute_entropy: the scores of all candidates, paired with them.
dispatch_compute_entropy(rem, entropy_set) ==
    [w \in rem |-> entropy_task_simple(w, entropy_set)]

\* EntropyAgent.guess: the first guess is read from a non-empty cache.
UseCache(rnd, cache) ==
    rnd = 0 /\ cache # EmptyCache

\* Mutant: the scores are saved by every guess that computes them.
MustSaveCache_always(rnd, cache) ==
    TRUE

\* EntropyAgent.guess: must_save_cache.
MustSaveCache(rnd, cache) ==
    rnd = 0 /\ cache = EmptyCache

\* EntropyAgent.guess: the possible outcomes, each the word returned, the cache
\* afterwards and whether the cache file was rewritten.
EntropyAgent_guess(rnd, cache, rem, num_samples) ==
    IF UseCache(rnd, cache)
    THEN {[word |-> w, cache |-> cache, saved |-> FALSE] : w \in ArgMax(cache)}
    ELSE UNION {
           LET entropies == dispatch_compute_entropy(rem, S)
               save      == MustSaveCache(rnd, cache)
           IN  {[word  |-> w,
                 cache |-> IF save THEN entropies ELSE cache,
                 saved |-> save] : w \in ArgMax(entropies)}
           : S \in EntropySets(rem, num_samples)}

\* agent.guess() for each class.
AgentGuess(c, rnd, cache, rem, num_samples, expl) ==
    CASE c = "RandomAgent" ->
           {[word |-> w, cache |-> cache, saved |-> FALSE] : w \in RandomAgent_guess(rem)}
      [] c = "DiverseRandomAgent" ->
           {[word |-> w, cache |-> cache, saved |-> FALSE] :
              w \in DiverseRandomAgent_guess(rem)}
      [] c = "FrequencyAgent" ->
           {[word |-> w, cache |-> cache, saved |-> FALSE] : w \in FrequencyAgent_guess(rem)}
      [] c = "EntropyAgent" ->
           EntropyAgent_guess(rnd, cache, rem, num_samples)
      [] c = "ExploreExploitAgent" ->
           IF rnd < expl
           THEN EntropyAgent_guess(rnd, cache, rem, num_samples)
           ELSE {[word |-> w, cache |-> cache, saved |-> FALSE] :
                   w \in FrequencyAgent_guess(rem)}

\* The narrowing rule of process_feedback for each class; RandomAgent's
\* set.remove raises KeyError when the guess is not a candidate.
ProcessRaises(c, rem, g) ==
    c \in RandomClasses /\ g \notin rem

ProcessRemaining(c, rem, g, res) ==
    IF c \in RandomClasses THEN rem \ {g}
    ELSE {w \in rem : match_feedback(g, res, w)}

(***************************************************************************)
(* The process: agents are constructed and evaluate_agent is called on     *)
(* the current agent; an uncaught exception ends the process.              *)
(***************************************************************************)

NumSamplesChoices ==
    {NoSamples, 1}

ExplorationChoices ==
    {1, DefaultExplorationRounds}

\* What data/init_entropy_cache.txt holds when an earlier run over the same
\* vocabulary saved it.
SavedCache(word_list) ==
    dispatch_compute_entropy(word_list, word_list)

FbOff ==
    /\ fb_pc = "off"
    /\ fb_guess = NoWord
    /\ fb_target = NoWord
    /\ fb_result = NoWord
    /\ fb_solved = FALSE

Init ==
    /\ WORD_LIST \in {V \in SUBSET GameWords : Cardinality(V) <= MaxVocab}
    /\ cache_file \in {[exists |-> FALSE, content |-> EmptyCache],
                       [exists |-> TRUE, content |-> SavedCache(WORD_LIST)]}
    /\ file_writes = 0
    /\ calls = 0
    /\ cls = "none"
    /\ remaining = NoneRemaining
    /\ history = <<>>
    /\ round = 0
    /\ init_entropy_cache = EmptyCache
    /\ num_samples_entropy = NoSamples
    /\ exploration_rounds = 0
    /\ agent_writes = 0
    /\ agent_games = 0
    /\ pc = "idle"
    /\ target = NoWord
    /\ attempt = 0
    /\ guess = NoWord
    /\ result = NoWord
    /\ score = 0
    /\ exc = "none"
    /\ FbOff

\* agent.remaining once __init__ has returned: WordleAgent.__init__ ends with
\* reset(); EntropyAgent.__init__ then assigns None to self.remaining.
ConstructedRemaining(c, word_list) ==
    IF c \in EntropyClasses THEN NoneRemaining ELSE ResetRemaining(word_list)

\* agent_cls(WORD_LIST, **kwargs) with a cache file argument that names no file:
\* open() raises FileNotFoundError.
ConstructFails(c, use_file) ==
    /\ pc \in {"idle", "returned"}
    /\ calls < MaxCalls
    /\ c \in EntropyClasses
    /\ use_file
    /\ ~cache_file.exists
    /\ pc' = "raised"
    /\ exc' = "FileNotFoundError"
    /\ UNCHANGED <<WORD_LIST, cache_file, file_writes, calls, cls, remaining, history,
                   round, init_entropy_cache, num_samples_entropy, exploration_rounds,
                   agent_writes, agent_games, target, attempt, guess, result, score,
                   fbVars>>

\* agent_cls(WORD_LIST, **kwargs): the new agent becomes the current one.
Construct(c, use_file, num_samples, expl) ==
    /\ pc \in {"idle", "returned"}
    /\ calls < MaxCalls
    /\ c \in EntropyClasses \/ (~use_file /\ num_samples = NoSamples)
    /\ c = "ExploreExploitAgent" \/ expl = DefaultExplorationRounds
    /\ use_file => cache_file.exists
    /\ calls' = calls + 1
    /\ cls' = c
    /\ remaining' = ConstructedRemaining(c, WORD_LIST)
    /\ history' = <<>>
    /\ round' = 0
    /\ init_entropy_cache' = IF use_file THEN cache_file.content ELSE EmptyCache
    /\ num_samples_entropy' = num_samples
    /\ exploration_rounds' = expl
    /\ agent_writes' = 0
    /\ agent_games' = 0
    /\ target' = NoWord
    /\ attempt' = 0
    /\ guess' = NoWord
    /\ result' = NoWord
    /\ score' = 0
    /\ pc' = "idle"
    /\ UNCHANGED <<WORD_LIST, cache_file, file_writes, exc, fbVars>>

\* evaluate_agent(agent, WORD_LIST, target) up to the loop: agent.reset().
EvaluateStart(t) ==
    /\ pc \in {"idle", "returned"}
    /\ cls # "none"
    /\ calls < MaxCalls
    /\ calls' = calls + 1
    /\ agent_games' = agent_games + 1
    /\ target' = t
    /\ remaining' = ResetRemaining(WORD_LIST)
    /\ history' = <<>>
    /\ round' = 0
    /\ attempt' = 1
    /\ guess' = NoWord
    /\ result' = NoWord
    /\ score' = 0
    /\ pc' = "loop"
    /\ UNCHANGED <<WORD_LIST, cache_file, file_writes, cls, init_entropy_cache,
                   num_samples_entropy, exploration_rounds, agent_writes, exc, fbVars>>

\* The loop body, first half, with no candidate left and an empty vocabulary:
\* random.choice([]) raises IndexError.
FallbackRaises ==
    /\ pc = "loop"
    /\ remaining = {}
    /\ WORD_LIST = {}
    /\ pc' = "raised"
    /\ exc' = "IndexError"
    /\ UNCHANGED <<WORD_LIST, cache_file, file_writes, calls, cls, remaining, history,
                   round, init_entropy_cache, num_samples_entropy, exploration_rounds,
                   agent_writes, agent_games, target, attempt, guess, result, score,
                   fbVars>>

\* The loop body, first half, with no candidate left: guess = random.choice(word_list).
FallbackGuess ==
    /\ pc = "loop"
    /\ remaining = {}
    /\ guess' \in WORD_LIST
    /\ pc' = "feedback"
    /\ UNCHANGED <<WORD_LIST, cache_file, file_writes, calls, cls, remaining, history,
                   round, init_entropy_cache, num_samples_entropy, exploration_rounds,
                   agent_writes, agent_games, target, attempt, result, score, exc,
                   fbVars>>

\* The loop body, first half: guess = agent.guess() raises.
GuessFails ==
    /\ pc = "loop"
    /\ remaining # {}
    /\ GuessRaises(cls)
    /\ pc' = "raised"
    /\ exc' = "TypeError"
    /\ UNCHANGED <<WORD_LIST, cache_file, file_writes, calls, cls, remaining, history,
                   round, init_entropy_cache, num_samples_entropy, exploration_rounds,
                   agent_writes, agent_games, target, attempt, guess, result, score,
                   fbVars>>

\* The loop body, first half: guess = agent.guess().
Guess ==
    /\ pc = "loop"
    /\ remaining # {}
    /\ ~GuessRaises(cls)
    /\ \E o \in AgentGuess(cls, round, init_entropy_cache, remaining,
                           num_samples_entropy, exploration_rounds) :
          /\ guess' = o.word
          /\ init_entropy_cache' = o.cache
          /\ cache_file' = IF o.saved THEN [exists |-> TRUE, content |-> o.cache]
                           ELSE cache_file
          /\ file_writes' = IF o.saved THEN file_writes + 1 ELSE file_writes
          /\ agent_writes' = IF o.saved THEN agent_writes + 1 ELSE agent_writes
    /\ agent_games' = agent_games
    /\ pc' = "feedback"
    /\ UNCHANGED <<WORD_LIST, calls, cls, remaining, history, round,
                   num_samples_entropy, exploration_rounds, target, attempt, result,
                   score, exc, fbVars>>

\* Mutant: the loop runs over range(1, 7).
LastAttempt_six ==
    5 + 1

\* range(1, 6): the last attempt of evaluate_agent.
LastAttempt ==
    5

\* The loop body, second half: result = compute_feedback(guess, target), then
\* agent.process_feedback(guess, result) raises after WordleAgent.process_feedback
\* has recorded the round.
FeedbackFails ==
    /\ pc = "feedback"
    /\ ProcessRaises(cls, remaining, guess)
    /\ result' = compute_feedback(guess, target)
    /\ history' = Append(history, <<guess, result'>>)
    /\ round' = round + 1
    /\ pc' = "raised"
    /\ exc' = "KeyError"
    /\ UNCHANGED <<WORD_LIST, cache_file, file_writes, calls, cls, remaining,
                   init_entropy_cache, num_samples_entropy, exploration_rounds,
                   agent_writes, agent_games, target, attempt, guess, score, fbVars>>

\* The loop body, second half: result = compute_feedback(guess, target),
\* agent.process_feedback(guess, result), then the all-green test and the end
\* of the loop.
Feedback ==
    /\ pc = "feedback"
    /\ ~ProcessRaises(cls, remaining, guess)
    /\ result' = compute_feedback(guess, target)
    /\ history' = Append(history, <<guess, result'>>)
    /\ round' = round + 1
    /\ remaining' = ProcessRemaining(cls, remaining, guess, result')
    /\ IF IsSolved(result')
       THEN /\ pc' = "returned"
            /\ score' = attempt
            /\ attempt' = attempt
       ELSE IF attempt = LastAttempt
       THEN /\ pc' = "returned"
            /\ score' = LastAttempt + 1
            /\ attempt' = attempt
       ELSE /\ pc' = "loop"
            /\ score' = score
            /\ attempt' = attempt + 1
    /\ UNCHANGED <<WORD_LIST, cache_file, file_writes, calls, cls, init_entropy_cache,
                   num_samples_entropy, exploration_rounds, agent_writes, agent_games,
                   target, guess, exc, fbVars>>

Next ==
    \/ \E c \in AgentClasses, use_file \in BOOLEAN : ConstructFails(c, use_file)
    \/ \E c \in AgentClasses, use_file \in BOOLEAN, num_samples \in NumSamplesChoices,
          expl \in ExplorationChoices : Construct(c, use_file, num_samples, expl)
    \/ \E t \in GameWords : EvaluateStart(t)
    \/ FallbackRaises
    \/ FallbackGuess
    \/ GuessFails
    \/ Guess
    \/ FeedbackFails
    \/ Feedback

Spec ==
    Init /\ [][Next]_vars

(***************************************************************************)
(* Properties                                                              *)
(***************************************************************************)

\* A game is in progress or has returned: reset() has run, no call has raised.
InGame ==
    pc \in {"loop", "feedback", "returned"}

\* The number of positions of a feedback code marked green or yellow.
Marks(res) ==
    Cardinality({i \in Pos : res[i] \in {"g", "y"}})

\* The sum over the distinct letters c of min(count of c in g, count of c in t).
SharedLetters(g, t) ==
    LET cs == LettersOf(g) \cap LettersOf(t)
    IN  SumOver(cs, [c \in cs |-> IF LetterCount(c, g) < LetterCount(c, t)
                                  THEN LetterCount(c, g) ELSE LetterCount(c, t)])

\* C1 (as claimed): in every state of a game, every word of the candidate set
\* reproduces, through compute_feedback, the feedback recorded for every guess of
\* the history.
C1_Original ==
    InGame =>
        \A w \in remaining : \A k \in 1..Len(history) :
            compute_feedback(history[k][1], w) = history[k][2]

\* C2 (as claimed): evaluate_agent returns the number k of the first all-green
\* round, 1 <= k <= 6, or 7 after six rounds none of which is all-green.
C2_Original ==
    pc = "returned" =>
        \/ /\ score \in 1..6
           /\ Len(history) = score
           /\ IsSolved(history[score][2])
        \/ /\ score = 7
           /\ Len(history) = 6
           /\ \A k \in 1..6 : ~IsSolved(history[k][2])

\* C2 (amended): evaluate_agent plays at most 5 rounds, each recording the guess
\* with compute_feedback(guess, target); it returns the number k of the first
\* all-green round, 1 <= k <= 5, or 6 after five rounds none of which is all-green.
C2_ReturnsAttempts ==
    InGame =>
        /\ Len(history) <= 5
        /\ round = Len(history)
        /\ \A k \in 1..Len(history) :
              history[k][2] = compute_feedback(history[k][1], target)
        /\ pc # "returned" => \A k \in 1..Len(history) : ~IsSolved(history[k][2])
        /\ pc = "returned" =>
              \/ /\ score \in 1..5
                 /\ Len(history) = score
                 /\ IsSolved(history[score][2])
                 /\ \A k \in 1..(score - 1) : ~IsSolved(history[k][2])
              \/ /\ score = 6
                 /\ Len(history) = 5
                 /\ \A k \in 1..5 : ~IsSolved(history[k][2])

\* C2 witness: a game returned 6 after five rounds without an all-green feedback.
C2_Witness ==
    pc = "returned" /\ score = 6 /\ Len(history) = 5

\* C3 (as claimed): compute_feedback("crate", "trace") is "yyyyy".
C3_Original ==
    (fb_pc = "done" /\ fb_guess = crate /\ fb_target = trace) =>
        fb_result = <<"y", "y", "y", "y", "y">>

\* C3 (amended): compute_feedback("crate", "trace") is "yggyg": 'r', 'a' and 'e'
\* are in place and green, 'c' and 't' are yellow.
C3_CrateTrace ==
    (fb_pc = "done" /\ fb_guess = crate /\ fb_target = trace) =>
        fb_result = <<"y", "g", "g", "y", "g">>

\* C3 witness: compute_feedback has returned for guess "crate" and target "trace".
C3_Witness ==
    fb_pc = "done" /\ fb_guess = crate /\ fb_target = trace

\* C4 (as claimed): every process_feedback call completes and leaves a candidate
\* set no larger than before, the calls made with the fallback guess included.
C4_Original ==
    [][pc = "feedback" =>
          /\ pc' # "raised"
          /\ Cardinality(remaining') <= Cardinality(remaining)]_vars

\* C5 (as claimed): guess() on a non-empty candidate set leaves the candidate set,
\* the history, the round counter and the entropy cache as they were.
C5_Original ==
    [][(pc = "loop" /\ remaining # {}) =>
          /\ remaining' = remaining
          /\ history' = history
          /\ round' = round
          /\ init_entropy_cache' = init_entropy_cache]_vars

\* C5 (amended): guess() on a non-empty candidate set leaves the candidate set,
\* the history and the round counter as they were; it leaves the entropy cache as
\* it was too, unless it is the round-0 guess of an EntropyAgent or
\* ExploreExploitAgent whose cache is empty, which stores the candidates' scores.
C5_GuessFrame ==
    [][(pc = "loop" /\ remaining # {}) =>
          /\ remaining' = remaining
          /\ history' = history
          /\ round' = round
          /\ \/ init_entropy_cache' = init_entropy_cache
             \/ /\ cls \in EntropyClasses
                /\ round = 0
                /\ init_entropy_cache = EmptyCache
                /\ DOMAIN init_entropy_cache' = remaining]_vars

\* C5 witness: a round-0 guess() has just filled the empty cache of its agent.
C5_Witness ==
    /\ pc = "feedback"
    /\ round = 0
    /\ remaining # {}
    /\ agent_writes = 1
    /\ init_entropy_cache # EmptyCache
    /\ guess \in remaining

\* C6: compute_feedback(g, t) is all green exactly when g = t, and so the
\* driver's test reports a solve exactly when the guess is the target.
C6_AllGreenIff ==
    fb_pc = "done" =>
        /\ (fb_result = AllGreen) <=> (fb_guess = fb_target)
        /\ fb_solved <=> (fb_guess = fb_target)

\* C6, in the games of the driver: evaluate_agent returns a round number (a
\* solve) exactly when the guess of its last round is the target.
C6_GameSolve ==
    pc = "returned" =>
        /\ (score <= LastAttempt) <=> (history[Len(history)][1] = target)
        /\ \A k \in 1..Len(history) :
              IsSolved(history[k][2]) <=> (history[k][1] = target)

\* C6 witness: the guess "sound" against the target "sound" was reported solved.
C6_Witness ==
    /\ fb_pc = "done"
    /\ fb_guess = sound
    /\ fb_target = sound
    /\ fb_result = AllGreen
    /\ fb_solved

\* C7 (as claimed): right after construction, and right after reset(), the
\* candidate set is the vocabulary, the history is empty and the round is 0.
C7_Original ==
    ((pc = "idle" /\ cls # "none") \/ (pc = "loop" /\ attempt = 1)) =>
        /\ remaining = WORD_LIST
        /\ history = <<>>
        /\ round = 0

\* C8 (as claimed, its first part): the process writes the cache file at most once.
C8_Original ==
    file_writes <= 1

\* An entropy guess: EntropyAgent.guess, or ExploreExploitAgent.guess while exploring.
EntropyGuessing ==
    \/ cls = "EntropyAgent"
    \/ cls = "ExploreExploitAgent" /\ round < exploration_rounds

\* C8 (amended): each agent writes the cache file at most once, and only by a
\* round-0 guess() made while its entropy cache is empty; every later round-0
\* entropy guess() of that agent returns a best word of its cache and writes
\* nothing.  (Two agents of one process may each write the file.)
C8_OncePerAgent ==
    [][/\ file_writes' # file_writes =>
            /\ pc = "loop"
            /\ round = 0
            /\ init_entropy_cache = EmptyCache
            /\ agent_writes = 0
            /\ agent_writes' = 1
            /\ file_writes' = file_writes + 1
            /\ cache_file' = [exists |-> TRUE, content |-> init_entropy_cache']
       /\ file_writes' = file_writes => cache_file' = cache_file
       /\ agent_writes' <= 1
       /\ (pc = "loop" /\ remaining # {} /\ round = 0 /\ EntropyGuessing
             /\ init_entropy_cache # EmptyCache) =>
            /\ guess' \in ArgMax(init_entropy_cache)
            /\ init_entropy_cache' = init_entropy_cache
            /\ file_writes' = file_writes]_vars

\* C8 witness: an agent that wrote the file in an earlier game has made the
\* round-0 guess of a later game from its cache, and the file was written once.
C8_Witness ==
    /\ pc = "feedback"
    /\ round = 0
    /\ agent_games = 2
    /\ agent_writes = 1
    /\ file_writes = 1
    /\ guess \in ArgMax(init_entropy_cache)

\* C9: the green and yellow marks of compute_feedback(g, t) number at most the sum
\* over the distinct letters c of min(count of c in g, count of c in t), and the
\* marked occurrences of a letter of the guess at most its occurrences in the target.
C9_Conservation ==
    fb_pc = "done" =>
        /\ Marks(fb_result) <= SharedLetters(fb_guess, fb_target)
        /\ \A c \in LettersOf(fb_guess) :
              Cardinality({i \in Pos : fb_guess[i] = c /\ fb_result[i] \in {"g", "y"}})
                <= LetterCount(c, fb_target)

\* C9 witness: "eater" against "tubes": the guess repeats 'e', the target holds one,
\* and only the 'e' in place is marked.
C9_Witness ==
    /\ fb_pc = "done"
    /\ fb_guess = eater
    /\ fb_target = tubes
    /\ fb_result = <<"b", "b", "y", "g", "b">>

\* C10 (as claimed): in a game of a filtering agent whose target is in the
\* vocabulary, the target stays in the candidate set.
C10_Original ==
    (InGame /\ cls \in FilterClasses /\ target \in WORD_LIST) => target \in remaining

====
